---- MODULE Spec2Model ----
(***************************************************************************)
(* Model of src/board/system76/common/battery.c: the charging thresholds,  *)
(* the battery telemetry snapshot, the charge decision (hysteresis) and    *)
(* the charger register programmer.                                        *)
(*                                                                         *)
(* Every function of the file is one action that runs the whole function.  *)
(* The SMBus transport and the configuration store are not part of the     *)
(* file; they are modelled at their interface (smbus_read, smbus_write,    *)
(* config_set_value, config_get_value).                                    *)
(***************************************************************************)
EXTENDS Integers, Sequences, FiniteSets, TLC

VARIABLES
    battery_start_threshold,  \* config_t .value of the start threshold
    battery_stop_threshold,   \* config_t .value of the stop threshold
    telemetry,                \* the nine uint16_t battery_* globals
    charger_enabled,          \* static bool charger_enabled
    should_charge,            \* static bool should_charge (in configure)
    charger,                  \* charger device: per register, the value last
                              \* written successfully (<<>>: never written)
    log                       \* trace of the last function call

vars == <<battery_start_threshold, battery_stop_threshold, telemetry,
          charger_enabled, should_charge, charger, log>>

(***************************************************************************)
(* Bounds of the model.                                                    *)
(***************************************************************************)

\* Arguments the setters are called with: below, at and above both ranges,
\* a band (40, 80), equal thresholds and inverted ones (80, 40).
ThresholdArgs == {-1, 0, 40, 80, 100, 150}

\* Relative charge values the battery reports: empty, at the thresholds,
\* inside the band and full.
ChargeLevels == {0, 40, 60, 80, 100}

\* Samples of the telemetry-only specification are 0 .. MaxSample.
MaxSample == 1

\* The decision-only specification takes thresholds and charge values within
\* Spread of 40 and of 80, besides the ends of the ranges.
Spread == 1

\* In the telemetry-only specification at most MaxReadFaults of the nine
\* reads of a refresh fail, or all nine do.
MaxReadFaults == 3

\* At most MaxWriteFaults bus writes of one call fail.
MaxWriteFaults == 2

(***************************************************************************)
(* 16-bit arithmetic.                                                      *)
(***************************************************************************)

Word == 65536

Shl(v, n) == (v * (2 ^ n)) % Word

RECURSIVE BitOr(_, _)
BitOr(a, b) ==
    IF a = 0 THEN b
    ELSE IF b = 0 THEN a
    ELSE (IF a % 2 = 1 \/ b % 2 = 1 THEN 1 ELSE 0) + 2 * BitOr(a \div 2, b \div 2)

Bit(v, i) == (v \div (2 ^ i)) % 2

(***************************************************************************)
(* ChargeOption0 flags.                                                    *)
(***************************************************************************)

SBC_EN_LWPWR == Shl(1, 15)

SBC_WDTMR_ADJ_175S == Shl(3, 13)

SBC_PWM_FREQ_800KHZ == Shl(1, 8)

SBC_IDCHC_GAIN == Shl(1, 3)

\* Variant: disable() leaves out the watchdog timeout.
DisableOption0_unarmed ==
    BitOr(BitOr(SBC_EN_LWPWR, SBC_PWM_FREQ_800KHZ), SBC_IDCHC_GAIN)

\* The value battery_charger_disable writes to register 0x12.
DisableOption0 ==
    BitOr(BitOr(BitOr(SBC_EN_LWPWR, SBC_WDTMR_ADJ_175S), SBC_PWM_FREQ_800KHZ),
          SBC_IDCHC_GAIN)

\* Variant: enable() leaves out low-power mode.
EnableOption0_no_lwpwr == BitOr(SBC_PWM_FREQ_800KHZ, SBC_IDCHC_GAIN)

\* The value battery_charger_enable writes to register 0x12.
EnableOption0 ==
    BitOr(BitOr(SBC_EN_LWPWR, SBC_PWM_FREQ_800KHZ), SBC_IDCHC_GAIN)

\* Charger registers (command codes).
REG_OPTION0 == 18

REG_CHARGE_CURRENT == 20

REG_CHARGE_VOLTAGE == 21

REG_INPUT_CURRENT == 63

ChargerRegs == {REG_OPTION0, REG_CHARGE_CURRENT, REG_CHARGE_VOLTAGE, REG_INPUT_CURRENT}

\* Board limits (board configuration, e.g. board/system76/galp3-c/board.mk).
CHARGER_CHARGE_CURRENT == 1536

CHARGER_CHARGE_VOLTAGE == 8800

CHARGER_INPUT_CURRENT == 3420

(***************************************************************************)
(* Threshold store.                                                        *)
(***************************************************************************)

\* Variant: the start threshold accepts 100.
battery_start_threshold_init_wide == [min_value |-> 0, max_value |-> 100, value |-> 0]

battery_start_threshold_init == [min_value |-> 0, max_value |-> 99, value |-> 0]

battery_stop_threshold_init == [min_value |-> 1, max_value |-> 100, value |-> 100]

\* common/config.c: the stored value.
config_get_value(config) == config.value

\* common/config.c: rejects a value outside [min_value, max_value].
config_set_value(config, value) ==
    IF value < config.min_value \/ value > config.max_value
    THEN [config |-> config, ret |-> FALSE]
    ELSE [config |-> [config EXCEPT !.value = value], ret |-> TRUE]

\* A C bool as the integer a caller sees.
BoolInt(b) == IF b THEN 1 ELSE 0

battery_get_start_threshold == config_get_value(battery_start_threshold)

battery_get_stop_threshold == config_get_value(battery_stop_threshold)

battery_set_start_threshold(value) ==
    LET r == config_set_value(battery_start_threshold, value) IN
    /\ battery_start_threshold' = r.config
    /\ log' = [op |-> "battery_set_start_threshold", arg |-> value,
               io |-> <<>>, ret |-> BoolInt(r.ret)]
    /\ UNCHANGED <<battery_stop_threshold, telemetry, charger_enabled,
                   should_charge, charger>>

battery_set_stop_threshold(value) ==
    LET r == config_set_value(battery_stop_threshold, value) IN
    /\ battery_stop_threshold' = r.config
    /\ log' = [op |-> "battery_set_stop_threshold", arg |-> value,
               io |-> <<>>, ret |-> BoolInt(r.ret)]
    /\ UNCHANGED <<battery_start_threshold, telemetry, charger_enabled,
                   should_charge, charger>>

(***************************************************************************)
(* Telemetry snapshot.                                                     *)
(***************************************************************************)

\* The nine fields in the order battery_event reads them, with their
\* command codes.
FieldOrder ==
    << [name |-> "battery_temp",               cmd |-> 8],
       [name |-> "battery_voltage",            cmd |-> 9],
       [name |-> "battery_current",            cmd |-> 10],
       [name |-> "battery_charge",             cmd |-> 13],
       [name |-> "battery_remaining_capacity", cmd |-> 15],
       [name |-> "battery_full_capacity",      cmd |-> 16],
       [name |-> "battery_status",             cmd |-> 22],
       [name |-> "battery_design_capacity",    cmd |-> 24],
       [name |-> "battery_design_voltage",     cmd |-> 25] >>

Fields == {FieldOrder[i].name : i \in DOMAIN FieldOrder}

telemetry_init == [f \in Fields |-> 0]

battery_charge == telemetry["battery_charge"]

\* What the battery answers to command cmd in sample s: the relative charge
\* is s itself, every other register a 16-bit value that differs per sample.
Reading(s, cmd) == IF cmd = 13 THEN s ELSE (s * 256 + cmd) % Word

\* smbus_read(BATTERY_ADDRESS, cmd, &N): a failure (cmd in the fault set)
\* gives a negative result, a success stores the battery's answer in N.
smbus_read(cmd, s, faults) ==
    IF cmd \in faults THEN [res |-> -1, data |-> 0, ok |-> FALSE]
    ELSE [res |-> 0, data |-> Reading(s, cmd), ok |-> TRUE]

\* Variant: a failed read leaves the field as it was.
command_keep(st, field, s, faults) ==
    LET r == smbus_read(field.cmd, s, faults) IN
    [tel |-> [st.tel EXCEPT ![field.name] = IF r.res < 0 THEN @ ELSE r.data],
     io  |-> Append(st.io, [cmd |-> field.cmd, ok |-> r.ok, value |-> r.data])]

\* The macro command(N, V) of battery_event, applied to snapshot st.
command(st, field, s, faults) ==
    LET r == smbus_read(field.cmd, s, faults) IN
    [tel |-> [st.tel EXCEPT ![field.name] = IF r.res < 0 THEN 0 ELSE r.data],
     io  |-> Append(st.io, [cmd |-> field.cmd, ok |-> r.ok, value |-> r.data])]

\* The reads of battery_event from the i-th on.
RECURSIVE refresh(_, _, _, _)
refresh(st, i, s, faults) ==
    IF i > Len(FieldOrder) THEN st
    ELSE refresh(command(st, FieldOrder[i], s, faults), i + 1, s, faults)

battery_event(s, faults) ==
    LET st == refresh([tel |-> telemetry, io |-> <<>>], 1, s, faults) IN
    /\ telemetry' = st.tel
    /\ log' = [op |-> "battery_event", arg |-> s, io |-> st.io, ret |-> 0]
    /\ UNCHANGED <<battery_start_threshold, battery_stop_threshold,
                   charger_enabled, should_charge, charger>>

(***************************************************************************)
(* Charger register programmer.  A call in progress is a record c:         *)
(* enabled (charger_enabled), regs (the charger), io (the bus writes       *)
(* issued so far, in order) and res (the local variable res).              *)
(***************************************************************************)

\* smbus_write(CHARGER_ADDRESS, cmd, value): the n-th write of a call fails
\* when n is in faults; a failed write gives a negative result and leaves
\* the register as it was.
smbus_write(c, cmd, value, faults) ==
    LET ok == (Len(c.io) + 1) \notin faults IN
    [c EXCEPT !.regs[cmd] = IF ok THEN <<value>> ELSE @,
              !.io = Append(@, [cmd |-> cmd, value |-> value, ok |-> ok]),
              !.res = IF ok THEN 0 ELSE -1]

\* Variant: disable() returns when its option register write fails.
battery_charger_disable_gating(c, faults) ==
    IF ~c.enabled THEN [c EXCEPT !.res = 0]
    ELSE
      LET w12 == smbus_write(c, REG_OPTION0, DisableOption0, faults)
          w14 == smbus_write(w12, REG_CHARGE_CURRENT, 0, faults)
          w15 == smbus_write(w14, REG_CHARGE_VOLTAGE, 0, faults)
          w3F == smbus_write(w15, REG_INPUT_CURRENT, 0, faults)
      IN  IF w12.res < 0 THEN w12
          ELSE IF w14.res < 0 THEN w14
          ELSE IF w15.res < 0 THEN w15
          ELSE IF w3F.res < 0 THEN w3F
          ELSE [w3F EXCEPT !.enabled = FALSE, !.res = 0]

\* Variant: disable() does not check the result of the charge-voltage write.
battery_charger_disable_unchecked(c, faults) ==
    IF ~c.enabled THEN [c EXCEPT !.res = 0]
    ELSE
      LET w12 == smbus_write(c, REG_OPTION0, DisableOption0, faults)
          w14 == smbus_write(w12, REG_CHARGE_CURRENT, 0, faults)
          w15 == smbus_write(w14, REG_CHARGE_VOLTAGE, 0, faults)
          w3F == smbus_write(w15, REG_INPUT_CURRENT, 0, faults)
      IN  IF w14.res < 0 THEN w14
          ELSE IF w3F.res < 0 THEN w3F
          ELSE [w3F EXCEPT !.enabled = FALSE, !.res = 0]

\* Variant: disable() does not clear charger_enabled.
battery_charger_disable_keeps_flag(c, faults) ==
    IF ~c.enabled THEN [c EXCEPT !.res = 0]
    ELSE
      LET w12 == smbus_write(c, REG_OPTION0, DisableOption0, faults)
          w14 == smbus_write(w12, REG_CHARGE_CURRENT, 0, faults)
          w15 == smbus_write(w14, REG_CHARGE_VOLTAGE, 0, faults)
          w3F == smbus_write(w15, REG_INPUT_CURRENT, 0, faults)
      IN  IF w14.res < 0 THEN w14
          ELSE IF w15.res < 0 THEN w15
          ELSE IF w3F.res < 0 THEN w3F
          ELSE [w3F EXCEPT !.res = 0]

battery_charger_disable(c, faults) ==
    IF ~c.enabled THEN [c EXCEPT !.res = 0]
    ELSE
      LET w12 == smbus_write(c, REG_OPTION0, DisableOption0, faults)
          w14 == smbus_write(w12, REG_CHARGE_CURRENT, 0, faults)
          w15 == smbus_write(w14, REG_CHARGE_VOLTAGE, 0, faults)
          w3F == smbus_write(w15, REG_INPUT_CURRENT, 0, faults)
      IN  IF w14.res < 0 THEN w14
          ELSE IF w15.res < 0 THEN w15
          ELSE IF w3F.res < 0 THEN w3F
          ELSE [w3F EXCEPT !.enabled = FALSE, !.res = 0]

\* Variant: enable() without the early return on charger_enabled.
battery_charger_enable_no_guard(c, faults) ==
    LET d   == battery_charger_disable(c, faults)
        w14 == smbus_write(d, REG_CHARGE_CURRENT, CHARGER_CHARGE_CURRENT, faults)
        w15 == smbus_write(w14, REG_CHARGE_VOLTAGE, CHARGER_CHARGE_VOLTAGE, faults)
        w3F == smbus_write(w15, REG_INPUT_CURRENT, CHARGER_INPUT_CURRENT, faults)
        w12 == smbus_write(w3F, REG_OPTION0, EnableOption0, faults)
    IN  IF d.res < 0 THEN d
        ELSE IF w14.res < 0 THEN w14
        ELSE IF w15.res < 0 THEN w15
        ELSE IF w3F.res < 0 THEN w3F
        ELSE [w12 EXCEPT !.enabled = TRUE, !.res = 0]

\* Variant: enable() does not check the result of the input-current write.
battery_charger_enable_unchecked(c, faults) ==
    IF c.enabled THEN [c EXCEPT !.res = 0]
    ELSE
      LET d   == battery_charger_disable(c, faults)
          w14 == smbus_write(d, REG_CHARGE_CURRENT, CHARGER_CHARGE_CURRENT, faults)
          w15 == smbus_write(w14, REG_CHARGE_VOLTAGE, CHARGER_CHARGE_VOLTAGE, faults)
          w3F == smbus_write(w15, REG_INPUT_CURRENT, CHARGER_INPUT_CURRENT, faults)
          w12 == smbus_write(w3F, REG_OPTION0, EnableOption0, faults)
      IN  IF d.res < 0 THEN d
          ELSE IF w14.res < 0 THEN w14
          ELSE IF w15.res < 0 THEN w15
          ELSE [w12 EXCEPT !.enabled = TRUE, !.res = 0]

battery_charger_enable(c, faults) ==
    IF c.enabled THEN [c EXCEPT !.res = 0]
    ELSE
      LET d   == battery_charger_disable(c, faults)
          w14 == smbus_write(d, REG_CHARGE_CURRENT, CHARGER_CHARGE_CURRENT, faults)
          w15 == smbus_write(w14, REG_CHARGE_VOLTAGE, CHARGER_CHARGE_VOLTAGE, faults)
          w3F == smbus_write(w15, REG_INPUT_CURRENT, CHARGER_INPUT_CURRENT, faults)
          w12 == smbus_write(w3F, REG_OPTION0, EnableOption0, faults)
      IN  IF d.res < 0 THEN d
          ELSE IF w14.res < 0 THEN w14
          ELSE IF w15.res < 0 THEN w15
          ELSE IF w3F.res < 0 THEN w3F
          ELSE [w12 EXCEPT !.enabled = TRUE, !.res = 0]

(***************************************************************************)
(* Charger decision engine: the if-chain of battery_charger_configure.     *)
(***************************************************************************)

\* Variant: the decision is not remembered (should_charge not static).
evaluate_no_memory(prior, charge, lo, hi) ==
    IF hi = 100 THEN TRUE
    ELSE IF charge >= hi THEN FALSE
    ELSE IF lo = 0 THEN TRUE
    ELSE IF charge <= lo THEN TRUE
    ELSE TRUE

\* Variant: inside the band the charger is switched off.
evaluate_band_off(prior, charge, lo, hi) ==
    IF hi = 100 THEN TRUE
    ELSE IF charge >= hi THEN FALSE
    ELSE IF lo = 0 THEN TRUE
    ELSE IF charge <= lo THEN TRUE
    ELSE FALSE

\* Variant: the stop threshold is compared before it is tested for 100.
evaluate_stop_first(prior, charge, lo, hi) ==
    IF charge >= hi THEN FALSE
    ELSE IF hi = 100 THEN TRUE
    ELSE IF lo = 0 THEN TRUE
    ELSE IF charge <= lo THEN TRUE
    ELSE prior

\* Variant: charging stops only above the stop threshold.
evaluate_strict_stop(prior, charge, lo, hi) ==
    IF hi = 100 THEN TRUE
    ELSE IF charge > hi THEN FALSE
    ELSE IF lo = 0 THEN TRUE
    ELSE IF charge <= lo THEN TRUE
    ELSE prior

\* Variant: charging starts only below the start threshold.
evaluate_strict_start(prior, charge, lo, hi) ==
    IF hi = 100 THEN TRUE
    ELSE IF charge >= hi THEN FALSE
    ELSE IF lo = 0 THEN TRUE
    ELSE IF charge < lo THEN TRUE
    ELSE prior

\* Variant: a start threshold of 0 is not taken as "control off".
evaluate_no_start_off(prior, charge, lo, hi) ==
    IF hi = 100 THEN TRUE
    ELSE IF charge >= hi THEN FALSE
    ELSE IF charge <= lo THEN TRUE
    ELSE prior

\* Variant: a charge of 0 is taken for a failed read and decides nothing.
evaluate_skip_zero(prior, charge, lo, hi) ==
    IF charge = 0 THEN prior
    ELSE IF hi = 100 THEN TRUE
    ELSE IF charge >= hi THEN FALSE
    ELSE IF lo = 0 THEN TRUE
    ELSE IF charge <= lo THEN TRUE
    ELSE prior

evaluate(prior, charge, lo, hi) ==
    IF hi = 100 THEN TRUE
    ELSE IF charge >= hi THEN FALSE
    ELSE IF lo = 0 THEN TRUE
    ELSE IF charge <= lo THEN TRUE
    ELSE prior

\* Variant: the dispatch is inverted.
battery_charger_configure_inverted(c, prior, faults) ==
    LET decision == evaluate(prior, battery_charge, battery_get_start_threshold,
                             battery_get_stop_threshold)
        r == IF decision THEN battery_charger_disable(c, faults)
             ELSE battery_charger_enable(c, faults)
    IN  [should_charge |-> decision, c |-> r]

battery_charger_configure(c, prior, faults) ==
    LET decision == evaluate(prior, battery_charge, battery_get_start_threshold,
                             battery_get_stop_threshold)
        r == IF decision THEN battery_charger_enable(c, faults)
             ELSE battery_charger_disable(c, faults)
    IN  [should_charge |-> decision, c |-> r]

(***************************************************************************)
(* The calls as actions.                                                   *)
(***************************************************************************)

Call == [enabled |-> charger_enabled, regs |-> charger, io |-> <<>>, res |-> 0]

\* Which writes of a call fail, by position: no call issues more than four
\* writes (enable() reaches its own writes only when its disable() returned
\* without writing).
FaultSets == {F \in SUBSET (1 .. 4) : Cardinality(F) <= MaxWriteFaults}

Disable(faults) ==
    LET r == battery_charger_disable(Call, faults) IN
    /\ charger_enabled' = r.enabled
    /\ charger' = r.regs
    /\ log' = [op |-> "battery_charger_disable", arg |-> 0, io |-> r.io,
               ret |-> r.res]
    /\ UNCHANGED <<battery_start_threshold, battery_stop_threshold, telemetry,
                   should_charge>>

Enable(faults) ==
    LET r == battery_charger_enable(Call, faults) IN
    /\ charger_enabled' = r.enabled
    /\ charger' = r.regs
    /\ log' = [op |-> "battery_charger_enable", arg |-> 0, io |-> r.io,
               ret |-> r.res]
    /\ UNCHANGED <<battery_start_threshold, battery_stop_threshold, telemetry,
                   should_charge>>

Configure(faults) ==
    LET r == battery_charger_configure(Call, should_charge, faults) IN
    /\ should_charge' = r.should_charge
    /\ charger_enabled' = r.c.enabled
    /\ charger' = r.c.regs
    /\ log' = [op |-> "battery_charger_configure", arg |-> 0, io |-> r.c.io,
               ret |-> r.c.res]
    /\ UNCHANGED <<battery_start_threshold, battery_stop_threshold, telemetry>>

SetStart == \E v \in ThresholdArgs : battery_set_start_threshold(v)

SetStop == \E v \in ThresholdArgs : battery_set_stop_threshold(v)

\* A refresh where at most the relative-charge read fails.
Refresh == \E s \in ChargeLevels, faults \in SUBSET {13} : battery_event(s, faults)

\* A refresh where several of the nine reads fail.
ReadFaultSets ==
    LET cmds == {FieldOrder[i].cmd : i \in DOMAIN FieldOrder} IN
    {F \in SUBSET cmds : Cardinality(F) <= MaxReadFaults} \cup {cmds}

RefreshAnyFault ==
    \E s \in 0 .. MaxSample, faults \in ReadFaultSets : battery_event(s, faults)

DisableCall == \E faults \in FaultSets : Disable(faults)

EnableCall == \E faults \in FaultSets : Enable(faults)

ConfigureCall == \E faults \in FaultSets : Configure(faults)

Init ==
    /\ battery_start_threshold = battery_start_threshold_init
    /\ battery_stop_threshold = battery_stop_threshold_init
    /\ telemetry = telemetry_init
    /\ charger_enabled = FALSE
    /\ should_charge = TRUE
    /\ charger = [r \in ChargerRegs |-> <<>>]
    /\ log = [op |-> "battery_init", arg |-> 0, io |-> <<>>, ret |-> 0]

Next ==
    \/ SetStart
    \/ SetStop
    \/ Refresh
    \/ ConfigureCall
    \/ EnableCall
    \/ DisableCall

Spec == Init /\ [][Next]_vars

\* The decision engine alone: thresholds and charge values around 40 and 80
\* (adjacent, equal and inverted pairs among them) and a bus that does not
\* fail.
NearValues == (40 - Spread) .. (40 + Spread) \cup (80 - Spread) .. (80 + Spread)

RangeEnds == {0, 1, 99, 100}

SetStartNear == \E v \in NearValues \cup RangeEnds : battery_set_start_threshold(v)

SetStopNear == \E v \in NearValues \cup RangeEnds : battery_set_stop_threshold(v)

RefreshNear == \E s \in NearValues \cup RangeEnds : battery_event(s, {})

ConfigureNoFault == Configure({})

NextEvaluate ==
    \/ SetStartNear
    \/ SetStopNear
    \/ RefreshNear
    \/ ConfigureNoFault

SpecEvaluate == Init /\ [][NextEvaluate]_vars

\* The telemetry snapshot alone, with combinations of failing reads.
NextTelemetry == RefreshAnyFault

SpecTelemetry == Init /\ [][NextTelemetry]_vars

(***************************************************************************)
(* Properties.  A call is recognised by the trace it leaves in log.  No    *)
(* call reads log, and a rejected setter call changes nothing but log, so  *)
(* every call that happens to leave all variables unchanged is also taken  *)
(* from a state that differs in log alone, where it is a visible step.     *)
(***************************************************************************)

start == battery_get_start_threshold

stop == battery_get_stop_threshold

Configured == log.op = "battery_charger_configure"

Enabled == log.op = "battery_charger_enable"

Disabled == log.op = "battery_charger_disable"

Refreshed == log.op = "battery_event"

\* Both controls active and the charge strictly between the thresholds.
InBand == 0 < start /\ start < battery_charge /\ battery_charge < stop /\ stop < 100

\* should_charge is private to battery_charger_configure.
OnlyConfigureDecides == Configured' \/ should_charge' = should_charge

\* C1: a tick with 0 < start < charge% < stop < 100 leaves the remembered
\* decision as it was, Charge or NoCharge; the memory starts as Charge and
\* only a tick changes it, so a first tick inside the band decides Charge.
C1_BandKeepsDecision ==
    /\ should_charge = TRUE
    /\ [][/\ OnlyConfigureDecides
          /\ (Configured' /\ InBand) => should_charge' = should_charge]_vars

\* A tick inside the band that kept NoCharge.
C1_Witness == Configured /\ InBand /\ ~should_charge

\* C2: with 0 < start < stop < 100, a tick that follows a NoCharge decision
\* decides NoCharge unless charge% <= start, and a tick that follows a
\* Charge decision decides Charge unless charge% >= stop; between ticks the
\* decision does not change.
C2_Hysteresis ==
    [][/\ OnlyConfigureDecides
       /\ (Configured' /\ 0 < start /\ start < stop /\ stop < 100) =>
             /\ (~should_charge /\ battery_charge > start) => ~should_charge'
             /\ (should_charge /\ battery_charge < stop) => should_charge']_vars

\* A tick above the start threshold and below the stop threshold that kept
\* on charging, on an enabled charger.
C2_Witness ==
    /\ Configured /\ InBand /\ should_charge
    /\ charger_enabled /\ log.io = <<>>

\* C3: a tick with the stop threshold at 100 decides Charge, for every
\* charge%, start threshold and prior decision.
C3_StopDisabledCharges ==
    [][(Configured' /\ stop = 100) => should_charge' = TRUE]_vars

\* A tick with stop = 100, a full battery and an active start threshold.
C3_Witness ==
    Configured /\ stop = 100 /\ battery_charge >= 100 /\ start > 0 /\ should_charge

\* C4: a tick with charge% >= stop and stop < 100 decides NoCharge whatever
\* the prior decision and the start threshold.
C4_StopReachedStops ==
    [][(Configured' /\ stop < 100 /\ battery_charge >= stop) =>
           should_charge' = FALSE]_vars

\* A tick at charge% >= stop with the start threshold at or above charge%.
C4_Witness ==
    /\ Configured /\ stop < 100 /\ battery_charge >= stop
    /\ start >= battery_charge /\ ~should_charge

\* C5: a tick with charge% <= start, start > 0 and charge% < stop decides
\* Charge whatever the prior decision.
C5_StartReachedCharges ==
    [][(Configured' /\ start > 0 /\ battery_charge <= start /\ battery_charge < stop) =>
           should_charge' = TRUE]_vars

\* A tick at charge% = start below an active stop threshold.
C5_Witness ==
    /\ Configured /\ start > 0 /\ battery_charge = start
    /\ battery_charge < stop /\ stop < 100 /\ should_charge

\* C6: the start threshold stays in [0, 99] and the stop threshold in
\* [1, 100]; a setter called with an out-of-range value returns false, a
\* setter that returns false (0) changes neither value, one that returns
\* true (1) stores its argument, and no other call changes what the getters return
\* (0 and 100 at first).
C6_ThresholdsValidated ==
    /\ start = 0 /\ stop = 100
    /\ [][/\ start' \in 0 .. 99
          /\ stop' \in 1 .. 100
          /\ log'.op = "battery_set_start_threshold" =>
                /\ log'.arg \notin 0 .. 99 => log'.ret = 0
                /\ start' = IF log'.ret = 1 THEN log'.arg ELSE start
                /\ stop' = stop
          /\ log'.op = "battery_set_stop_threshold" =>
                /\ log'.arg \notin 1 .. 100 => log'.ret = 0
                /\ stop' = IF log'.ret = 1 THEN log'.arg ELSE stop
                /\ start' = start
          /\ log'.op \notin {"battery_set_start_threshold",
                             "battery_set_stop_threshold"} =>
                start' = start /\ stop' = stop]_vars

\* set_start(150) rejected with an earlier accepted value still stored.
C6_Witness ==
    /\ log.op = "battery_set_start_threshold" /\ log.arg = 150
    /\ log.ret = 0 /\ start = 40 /\ stop = 80

\* C7 as claimed: a disable() that directly follows a disable() issues no
\* bus write.
C7_SecondDisableSilent ==
    [][(Disabled /\ Disabled') => log'.io = <<>>]_vars

\* C7 as amended: a disable() that directly follows a disable() that
\* returned success issues no bus write and returns success; one that
\* follows a disable() that returned a failure issues writes again.
C7_DisableAfterSuccessSilent ==
    [][(Disabled /\ Disabled') =>
           IF log.ret = 0 THEN log'.io = <<>> /\ log'.ret = 0
           ELSE log'.io # <<>>]_vars

\* disable() returning at once on a charger that a disable() has zeroed.
C7_Witness ==
    /\ Disabled /\ log.io = <<>> /\ log.ret = 0 /\ ~charger_enabled
    /\ charger[REG_OPTION0] = <<DisableOption0>>
    /\ charger[REG_INPUT_CURRENT] = <<0>>

\* C8: enable() called with the flag true issues no bus write, returns 0
\* and leaves the flag true.
C8_EnableWhenEnabledSilent ==
    [][(Enabled' /\ charger_enabled) =>
           log'.io = <<>> /\ log'.ret = 0 /\ charger_enabled']_vars

\* enable() that returned without a write: the flag was already true.
C8_Witness == Enabled /\ log.io = <<>> /\ log.ret = 0 /\ charger_enabled

\* C9: a refresh issues the nine reads in order whichever of them fail, and
\* leaves every field at 0 if its read failed and at the value the battery
\* answered if it succeeded.
C9_RefreshIsFresh ==
    Refreshed =>
        /\ Len(log.io) = Len(FieldOrder)
        /\ \A i \in DOMAIN FieldOrder :
              /\ log.io[i].cmd = FieldOrder[i].cmd
              /\ telemetry[FieldOrder[i].name] =
                    IF log.io[i].ok THEN Reading(log.arg, FieldOrder[i].cmd) ELSE 0

\* A refresh whose charge read failed after the temperature read succeeded
\* and before the design-voltage read succeeded.
C9_Witness ==
    /\ Refreshed /\ log.arg = 1
    /\ log.io[1].ok /\ ~log.io[4].ok /\ log.io[9].ok
    /\ telemetry["battery_temp"] # 0
    /\ telemetry["battery_charge"] = 0
    /\ telemetry["battery_design_voltage"] # 0

LimitsProgrammed ==
    /\ charger[REG_CHARGE_CURRENT] = <<CHARGER_CHARGE_CURRENT>>
    /\ charger[REG_CHARGE_VOLTAGE] = <<CHARGER_CHARGE_VOLTAGE>>
    /\ charger[REG_INPUT_CURRENT] = <<CHARGER_INPUT_CURRENT>>

\* The last call ran enable() to its end: its fourth write was the option
\* register (disable() writes the option register first).
EnableCompleted ==
    /\ Enabled \/ Configured
    /\ Len(log.io) = 4
    /\ log.io[4].cmd = REG_OPTION0

ProgrammerCall == Enabled \/ Disabled \/ Configured

\* The last call went through disable() only, or through enable().
DisablePath == Disabled \/ (Configured /\ ~should_charge)

EnablePath == Enabled \/ (Configured /\ should_charge)

\* A written register value with both watchdog-timeout bits set.
WatchdogArmed(reg) == reg # <<>> /\ Bit(reg[1], 13) = 1 /\ Bit(reg[1], 14) = 1

ZeroProgrammed ==
    /\ charger[REG_CHARGE_CURRENT] = <<0>>
    /\ charger[REG_CHARGE_VOLTAGE] = <<0>>
    /\ charger[REG_INPUT_CURRENT] = <<0>>

\* C11: a failed bus write of enable() or disable(), other than the option
\* register write that disable() issues first, is the last write of the
\* call, and the call returns a failure.
C11_WriteFailureReported ==
    ProgrammerCall =>
        \A i \in DOMAIN log.io :
            (~log.io[i].ok /\ ~(DisablePath /\ i = 1)) =>
                i = Len(log.io) /\ log.ret < 0

\* C12 as claimed: when enable() or disable() has returned a failure, the
\* value last written to the option register (if any was) is the
\* watchdog-armed value that disable() writes.
C12_FailureLeavesWatchdogArmed ==
    (ProgrammerCall /\ log.ret < 0 /\ charger[REG_OPTION0] # <<>>) =>
        charger[REG_OPTION0] = <<DisableOption0>> /\ WatchdogArmed(charger[REG_OPTION0])

\* C12 as amended: when enable() or disable() returns a failure, the option
\* register holds the watchdog-armed value if the call wrote it (disable()
\* whose first write succeeded), and otherwise what it held before the call.
C12_FailureArmsOrLeaves ==
    [][(ProgrammerCall' /\ log'.ret < 0) =>
           IF log'.io[1].cmd = REG_OPTION0 /\ log'.io[1].ok
           THEN /\ WatchdogArmed(charger'[REG_OPTION0])
                /\ charger'[REG_OPTION0] = <<log'.io[1].value>>
           ELSE charger'[REG_OPTION0] = charger[REG_OPTION0]]_vars

\* disable() that failed with the watchdog still cleared: both its option
\* register write and its charge-current write failed.
C12_Witness ==
    /\ Disabled /\ log.ret < 0 /\ Len(log.io) = 2 /\ ~log.io[1].ok
    /\ charger[REG_OPTION0] = <<EnableOption0>>

\* The last call ran disable() to its end and returned success.
DisableCompleted ==
    /\ DisablePath
    /\ Len(log.io) = 4
    /\ log.io[1].cmd = REG_OPTION0
    /\ log.ret = 0

\* C13 as claimed: when disable() has issued its writes and returned
\* success, the flag is false, the option register holds the watchdog-armed
\* value and the three limit registers hold 0.
C13_DisableArmsWatchdog ==
    DisableCompleted =>
        /\ ~charger_enabled
        /\ ZeroProgrammed
        /\ charger[REG_OPTION0] = <<DisableOption0>>

\* C13 as amended: when disable() has issued its writes and returned
\* success, the flag is false and the three limit registers hold 0; the
\* option register holds the value with low-power mode, the 175 s watchdog,
\* the switching frequency and the amplifier gain if that first write
\* succeeded.
C13_DisableZeroesLimits ==
    DisableCompleted =>
        /\ ~charger_enabled
        /\ ZeroProgrammed
        /\ log.io[1].ok =>
              /\ charger[REG_OPTION0] = <<DisableOption0>>
              /\ WatchdogArmed(charger[REG_OPTION0])
              /\ \A b \in {15, 8, 3} : Bit(charger[REG_OPTION0][1], b) = 1

\* disable() that returned success although its option register write
\* failed: the limits are zeroed and the watchdog is still cleared.
C13_Witness ==
    /\ DisableCompleted /\ ~log.io[1].ok /\ ~charger_enabled /\ ZeroProgrammed
    /\ charger[REG_OPTION0] = <<EnableOption0>>

\* The writes of disable() and of enable(), in program order.
DisableSequence ==
    << [cmd |-> REG_OPTION0,        value |-> DisableOption0],
       [cmd |-> REG_CHARGE_CURRENT, value |-> 0],
       [cmd |-> REG_CHARGE_VOLTAGE, value |-> 0],
       [cmd |-> REG_INPUT_CURRENT,  value |-> 0] >>

EnableSequence ==
    << [cmd |-> REG_CHARGE_CURRENT, value |-> CHARGER_CHARGE_CURRENT],
       [cmd |-> REG_CHARGE_VOLTAGE, value |-> CHARGER_CHARGE_VOLTAGE],
       [cmd |-> REG_INPUT_CURRENT,  value |-> CHARGER_INPUT_CURRENT],
       [cmd |-> REG_OPTION0,        value |-> EnableOption0] >>

\* io is a non-empty start of the write sequence seq.
StartOf(io, seq) ==
    /\ Len(io) \in 1 .. Len(seq)
    /\ \A i \in 1 .. Len(io) :
          io[i].cmd = seq[i].cmd /\ io[i].value = seq[i].value

\* C14: disable() called with the flag true writes 0x12 (watchdog armed),
\* 0x14 = 0, 0x15 = 0, 0x3F = 0 in this order; a failure of the 0x12 write
\* does not stop it, the first failure of a later write does, leaving the
\* remaining registers as they were and the flag true; the flag becomes
\* false exactly when the three zero writes succeeded.
C14_DisableSequence ==
    [][(charger_enabled /\ DisablePath') =>
           LET io == log'.io
               n  == Len(log'.io)
           IN  /\ StartOf(io, DisableSequence)
               /\ n >= 2
               /\ WatchdogArmed(<<io[1].value>>)
               /\ \A i \in 2 .. n : ~io[i].ok => i = n
               /\ n < 4 => ~io[n].ok
               /\ \A i \in (n + 1) .. 4 :
                     charger'[DisableSequence[i].cmd] = charger[DisableSequence[i].cmd]
               /\ charger_enabled' = ~(n = 4 /\ io[2].ok /\ io[3].ok /\ io[4].ok)]_vars

\* disable() whose 0x12 write failed, whose 0x14 write succeeded and whose
\* 0x15 write failed: 0x3F is not written and the flag is still true.
C14_Witness ==
    /\ Disabled /\ Len(log.io) = 3
    /\ ~log.io[1].ok /\ log.io[2].ok /\ ~log.io[3].ok
    /\ charger_enabled
    /\ charger[REG_CHARGE_CURRENT] = <<0>>
    /\ charger[REG_INPUT_CURRENT] = <<CHARGER_INPUT_CURRENT>>

\* C15: enable() called with the flag false issues the writes of disable()
\* (watchdog-armed option register, then the three zero writes) before it
\* writes any board limit.
C15_BaselineBeforeLimits ==
    (EnablePath /\ log.io # <<>>) =>
        /\ log.io[1].cmd = REG_OPTION0
        /\ WatchdogArmed(<<log.io[1].value>>)
        /\ \A i \in DOMAIN log.io :
              log.io[i].value \in {CHARGER_CHARGE_CURRENT, CHARGER_CHARGE_VOLTAGE,
                                   CHARGER_INPUT_CURRENT} => i > 4

\* C16: enable() called with the flag false writes 0x14, 0x15 and 0x3F to
\* the board limits in this order, the first failure stopping it with a
\* failure result, and 0x12 last; the option value is the one disable()
\* writes with the two watchdog bits 13 and 14 cleared and every other bit
\* the same; the flag is true exactly when the option register was written.
C16_EnableSequence ==
    [][(~charger_enabled /\ EnablePath') =>
           LET io == log'.io
               n  == Len(log'.io)
           IN  /\ StartOf(io, EnableSequence)
               /\ \A i \in 1 .. n : (i < 4 /\ ~io[i].ok) => i = n
               /\ n < 4 => ~io[n].ok /\ log'.ret < 0
               /\ charger_enabled' = (n = 4)
               /\ n = 4 =>
                     /\ log'.ret = 0
                     /\ Bit(DisableOption0, 13) = 1 /\ Bit(DisableOption0, 14) = 1
                     /\ \A b \in 0 .. 15 :
                           Bit(io[4].value, b) =
                               IF b \in {13, 14} THEN 0 ELSE Bit(DisableOption0, b)]_vars

\* enable() that wrote the three limits and then cleared the watchdog.
C16_Witness ==
    /\ Enabled /\ Len(log.io) = 4 /\ \A i \in 1 .. 4 : log.io[i].ok
    /\ charger_enabled /\ LimitsProgrammed
    /\ charger[REG_OPTION0] = <<EnableOption0>>

\* C17: a tick at charge% = 0 decides Charge for every pair of thresholds
\* and every prior decision.
C17_ZeroChargeCharges ==
    [][(Configured' /\ battery_charge = 0) => should_charge' = TRUE]_vars

\* A tick after a refresh whose charge read failed (the other fields hold
\* the readings of a sample with a non-zero charge), with both controls
\* active.
C17_Witness ==
    /\ Configured /\ battery_charge = 0
    /\ telemetry["battery_temp"] \notin {0, Reading(0, 8)}
    /\ 0 < start /\ stop < 100 /\ should_charge

\* C18: a tick calls enable() for Charge and disable() for NoCharge; when it
\* returns success the flag equals the decision just computed, when it
\* returns a failure the flag keeps its value, which differs from the
\* decision, and the decision is remembered either way.
C18_ApplyDecision ==
    [][Configured' =>
           /\ should_charge' = evaluate(should_charge, battery_charge, start, stop)
           /\ log'.io # <<>> =>
                 StartOf(log'.io, IF should_charge' THEN EnableSequence
                                  ELSE DisableSequence)
           /\ log'.ret = 0 => charger_enabled' = should_charge'
           /\ log'.ret < 0 =>
                 /\ charger_enabled' = charger_enabled
                 /\ charger_enabled # should_charge']_vars

\* A tick that decided NoCharge and failed: the flag is still true.
C18_Witness ==
    /\ Configured /\ log.ret < 0 /\ ~should_charge /\ charger_enabled
    /\ battery_charge >= stop

\* C19: each setter accepts every value of its own range whatever the other
\* threshold is, and the decision of a tick depends on the prior decision
\* exactly when 0 < start < charge% < stop < 100: outside the band the tick
\* decides what it would have decided from the opposite prior decision,
\* inside the band it decides the opposite of that.
C19_PriorMattersOnlyInBand ==
    [][/\ (log'.op = "battery_set_start_threshold" /\ log'.arg \in 0 .. 99) =>
              log'.ret = 1 /\ start' = log'.arg
       /\ (log'.op = "battery_set_stop_threshold" /\ log'.arg \in 1 .. 100) =>
              log'.ret = 1 /\ stop' = log'.arg
       /\ Configured' =>
              ((should_charge' = evaluate(~should_charge, battery_charge, start, stop))
                  <=> ~InBand)]_vars

\* A tick with adjacent thresholds (stop = start + 1) at charge% = start.
C19_Witness ==
    /\ Configured /\ 0 < start /\ stop = start + 1 /\ stop < 100
    /\ battery_charge = start /\ should_charge

\* A register that was written holds the given value; a register no call has
\* written yet is not held against the decision.
Holds(reg, value) == charger[reg] = <<>> \/ charger[reg] = <<value>>

\* The registers hold the configuration of the decision of the last tick.
DecisionProgrammed ==
    IF should_charge
    THEN /\ Holds(REG_CHARGE_CURRENT, CHARGER_CHARGE_CURRENT)
         /\ Holds(REG_CHARGE_VOLTAGE, CHARGER_CHARGE_VOLTAGE)
         /\ Holds(REG_INPUT_CURRENT, CHARGER_INPUT_CURRENT)
         /\ Holds(REG_OPTION0, EnableOption0)
    ELSE /\ Holds(REG_CHARGE_CURRENT, 0)
         /\ Holds(REG_CHARGE_VOLTAGE, 0)
         /\ Holds(REG_INPUT_CURRENT, 0)
         /\ Holds(REG_OPTION0, DisableOption0)

\* C20: retrying on the next tick converges. Once a tick has left the flag
\* equal to its decision, every later tick with the same decision returns
\* before its first write, so the registers stay as they are for as long as
\* the decision stays: if they are ever to hold the configuration of the
\* decision they hold it already. Hence after every tick that leaves the
\* flag equal to the decision, the registers written so far hold the
\* configuration of that decision.
C20_RetryConverges ==
    (Configured /\ charger_enabled = should_charge) => DecisionProgrammed

====
